---- MODULE Spec2Model ----
(***************************************************************************)
(* Model of email_processor.py: unread inbox messages are turned into      *)
(* ticket-creation requests against a webhook; a message is flagged \Seen  *)
(* by the program only after the webhook answered 200.                     *)
(*                                                                         *)
(* Spec      : main() run repeatedly over one mailbox.                     *)
(* SpecUrl   : ensure_https_url applied to bounded URLs.                   *)
(* SpecBody  : get_email_body applied to bounded messages.                 *)
(* SpecSender: the sender extraction of main() applied to bounded headers. *)
(* SpecName  : process_name applied to bounded display names.              *)
(* SpecHeader: decode_str applied to bounded headers.                      *)
(***************************************************************************)
EXTENDS Integers, Sequences, FiniteSets, TLC

VARIABLES
    pc,            \* position of main(): see PcValues
    run,           \* number of the current invocation of main()
    nmsgs,         \* the inbox holds messages 1..nmsgs
    unseen,        \* messages of the inbox without the \Seen flag (durable)
    WEBHOOK_URL,   \* os.environ['WEBHOOK_URL'], a sequence of characters
    message_nums,  \* messages[0].split(): the snapshot of the single search
    idx,           \* index of msg_num in message_nums
    response,      \* status code of the response of requests.post, 0 = none
    opened,        \* IMAP4_SSL(IMAP_SERVER) returned a connection in this run
    logoutCalls,   \* mail.logout() invocations in this run
    outcome,       \* per message: how its loop body ended in this run
    dispatchCalls, \* per message: send_webhook_request calls in this run
    optionsSent,   \* per message: OPTIONS requests sent in this run
    postSent,      \* per message: POST requests sent in this run
    got200,        \* messages whose POST returned 200 in this run
    storeIssued,   \* messages for which STORE +FLAGS \Seen was issued in this run
    sentTo,        \* URLs that a request was actually sent to
    ticketed,      \* messages whose POST returned 200 in this or an earlier run
    prevFailed,    \* messages whose dispatch failed in the previous run
    marked,        \* messages whose STORE +FLAGS \Seen succeeded, in any run
    fetchCalls,    \* per message: mail.fetch calls in this run
    sessionFail,   \* the session-level step that ended this run, "none" if none did
    searchCalls,   \* mail.search calls in this run
    fetchOrder,    \* the messages fetched in this run, in the order of the fetches
    arg,           \* input of the pure function under test
    ret,           \* results of its successive applications
    call           \* which pure function is under test

runVars == <<pc, run, nmsgs, unseen, WEBHOOK_URL, message_nums, idx, response,
             opened, logoutCalls, outcome, dispatchCalls, optionsSent, postSent,
             got200, storeIssued, sentTo, ticketed, prevFailed, marked,
             fetchCalls, sessionFail, searchCalls, fetchOrder>>
fnVars == <<arg, ret, call>>
vars == <<runVars, fnVars>>

(***************************************************************************)
(* Bounds                                                                  *)
(***************************************************************************)
MaxMsgs == 2
MaxRuns == 2
MaxPieces == 3
MaxParts == 3
MaxHeader == 5
MaxName == 5
MaxWords == 3

Msgs == 1..MaxMsgs

(***************************************************************************)
(* Character strings: a string is a sequence of one-character strings.     *)
(***************************************************************************)
Upper == {"H", "T", "P", "S", "F"}
lower == [c \in Upper |-> CASE c = "H" -> "h" [] c = "T" -> "t" [] c = "P" -> "p"
                            [] c = "S" -> "s" [] c = "F" -> "f"]
LowerChar(c) == IF c \in Upper THEN lower[c] ELSE c
Lower(s) == [i \in 1..Len(s) |-> LowerChar(s[i])]
Letters == Upper \cup {"h", "t", "p", "s", "f", "a"}
SchemeChars == Letters \cup {"+", "-", "."}

MatchAt(s, old, i) ==
    /\ i + Len(old) - 1 <= Len(s)
    /\ SubSeq(s, i, i + Len(old) - 1) = old

\* str.find: index of the first occurrence, 0 when there is none
Find(s, old) ==
    IF \E i \in 1..Len(s) : MatchAt(s, old, i)
    THEN CHOOSE i \in 1..Len(s) :
            MatchAt(s, old, i) /\ \A j \in 1..(i - 1) : ~MatchAt(s, old, j)
    ELSE 0

\* str.replace(old, new, 1)
ReplaceFirst(s, old, new) ==
    LET i == Find(s, old)
    IN  IF i = 0 THEN s
        ELSE SubSeq(s, 1, i - 1) \o new \o SubSeq(s, i + Len(old), Len(s))

Count(s, old) == Cardinality({i \in 1..Len(s) : MatchAt(s, old, i)})

HTTP_PREFIX == <<"h", "t", "t", "p", ":", "/", "/">>
HTTPS_PREFIX == <<"h", "t", "t", "p", "s", ":", "/", "/">>
HTTPS == <<"h", "t", "t", "p", "s">>
HTTP == <<"h", "t", "t", "p">>

\* urllib.parse.urlparse(url).scheme: the text before the first ':' lower-cased,
\* when it starts with a letter and holds scheme characters only; else ''.
urlparse_scheme(url) ==
    LET i == Find(url, <<":">>)
    IN  IF /\ i > 1
           /\ url[1] \in Letters
           /\ \A k \in 1..(i - 1) : url[k] \in SchemeChars
        THEN Lower(SubSeq(url, 1, i - 1))
        ELSE <<>>

\* line 46 without the scheme test: the replacement is applied to every URL
ensure_https_url_always(url) == ReplaceFirst(url, HTTP_PREFIX, HTTPS_PREFIX)

ensure_https_url(url) ==
    IF urlparse_scheme(url) # HTTPS
    THEN ReplaceFirst(url, HTTP_PREFIX, HTTPS_PREFIX)
    ELSE url

\* requests picks a transport adapter by the lower-cased URL prefix; without
\* one (InvalidSchema, MissingSchema) it raises before anything is sent.
requests_can_send(url) ==
    \/ MatchAt(Lower(url), HTTP_PREFIX, 1)
    \/ MatchAt(Lower(url), HTTPS_PREFIX, 1)

(***************************************************************************)
(* The run of main()                                                       *)
(***************************************************************************)
HOST == <<"a">>
ConfigURLs ==
    { <<>>,
      HTTP_PREFIX \o HOST,
      HTTPS_PREFIX \o HOST,
      <<"H", "T", "T", "P", ":", "/", "/">> \o HOST,
      <<"f", "t", "p", ":", "/", "/">> \o HOST,
      HOST }

Statuses == {200, 201, 500}

PcValues == {"check_environment", "connect", "login", "select", "search",
             "logout_empty", "fetch", "parse", "dispatch", "post", "status",
             "store", "logout", "returned", "exit1"}

Outcomes == {"none", "fetch_err", "decode_err", "preflight_err", "post_err",
             "non200", "store_err", "store_no", "acked"}

\* the session-level steps of main(), outside the per-message loop
SessionSteps == {"check_environment", "connect", "login", "select", "search",
                 "logout"}

Terminated == pc \in {"returned", "exit1"}

RECURSIVE SortedSeq(_)
SortedSeq(S) ==
    IF S = {} THEN <<>>
    ELSE LET m == CHOOSE x \in S : \A y \in S : x <= y
         IN  <<m>> \o SortedSeq(S \ {m})

Range(s) == {s[i] : i \in 1..Len(s)}

\* a loop that walks the snapshot from its end
msg_num_reversed == message_nums[Len(message_nums) + 1 - idx]

\* line 117: the message of the current iteration
msg_num == message_nums[idx]

Zero == [m \in Msgs |-> 0]

Init ==
    /\ pc = "check_environment"
    /\ run = 1
    /\ nmsgs = 0
    /\ unseen = {}
    /\ WEBHOOK_URL \in ConfigURLs
    /\ message_nums = <<>>
    /\ idx = 1
    /\ response = 0
    /\ opened = FALSE
    /\ logoutCalls = 0
    /\ outcome = [m \in Msgs |-> "none"]
    /\ dispatchCalls = Zero
    /\ optionsSent = Zero
    /\ postSent = Zero
    /\ got200 = {}
    /\ storeIssued = {}
    /\ sentTo = {}
    /\ ticketed = {}
    /\ prevFailed = {}
    /\ marked = {}
    /\ fetchCalls = Zero
    /\ sessionFail = "none"
    /\ searchCalls = 0
    /\ fetchOrder = <<>>
    /\ arg = <<>>
    /\ ret = <<>>
    /\ call = "main"

\* lines 165-167: the outer handler prints and exits with status 1;
\* line 102: sys.exit(1) after a rejected login (SystemExit passes the handlers)
Exit1 == pc' = "exit1"

\* a loop header that steps over the message after the current one
NextMessageSkipping(o) ==
    /\ outcome' = [outcome EXCEPT ![msg_num] = o]
    /\ idx' = IF idx + 2 <= Len(message_nums) THEN idx + 2 ELSE Len(message_nums) + 1
    /\ pc' = IF idx + 2 <= Len(message_nums) THEN "fetch" ELSE "logout"
    /\ response' = 0

\* the loop header, line 117: the next msg_num, or the code after the loop
NextMessage(o) ==
    /\ outcome' = [outcome EXCEPT ![msg_num] = o]
    /\ idx' = idx + 1
    /\ pc' = IF idx < Len(message_nums) THEN "fetch" ELSE "logout"
    /\ response' = 0

\* a handler that lets the exception reach the outer handler
HandleExceptionReraise(o) ==
    /\ outcome' = [outcome EXCEPT ![msg_num] = o]
    /\ Exit1
    /\ UNCHANGED <<idx, response>>

\* lines 158-160: except Exception: print, continue
HandleException(o) == NextMessage(o)

\* lines 10-17
check_environment ==
    /\ pc = "check_environment"
    /\ \E others_set \in BOOLEAN :
          IF others_set /\ WEBHOOK_URL # <<>>
          THEN pc' = "connect"
          ELSE Exit1
    /\ UNCHANGED <<run, nmsgs, unseen, WEBHOOK_URL, message_nums, idx, response,
                   opened, logoutCalls, outcome, dispatchCalls, optionsSent,
                   postSent, got200, storeIssued, sentTo, ticketed, prevFailed, marked, fetchCalls>>
    /\ sessionFail' = IF pc' = "exit1" THEN "check_environment" ELSE sessionFail
    /\ UNCHANGED <<searchCalls, fetchOrder>>
    /\ UNCHANGED fnVars

\* line 95: imaplib.IMAP4_SSL(IMAP_SERVER) connects or raises
Connect ==
    /\ pc = "connect"
    /\ \/ pc' = "login" /\ opened' = TRUE
       \/ Exit1 /\ UNCHANGED opened
    /\ UNCHANGED <<run, nmsgs, unseen, WEBHOOK_URL, message_nums, idx, response,
                   logoutCalls, outcome, dispatchCalls, optionsSent,
                   postSent, got200, storeIssued, sentTo, ticketed, prevFailed, marked, fetchCalls>>
    /\ sessionFail' = IF pc' = "exit1" THEN "connect" ELSE sessionFail
    /\ UNCHANGED <<searchCalls, fetchOrder>>
    /\ UNCHANGED fnVars

\* a login whose rejection is reported but does not end the run
LoginRejectionIgnored ==
    /\ pc = "login"
    /\ pc' = "select"
    /\ \E rejected \in BOOLEAN :
          sessionFail' = IF rejected THEN "login" ELSE sessionFail
    /\ UNCHANGED <<run, nmsgs, unseen, WEBHOOK_URL, message_nums, idx, response,
                   opened, logoutCalls, outcome, dispatchCalls, optionsSent,
                   postSent, got200, storeIssued, sentTo, ticketed, prevFailed, marked, fetchCalls>>
    /\ UNCHANGED <<searchCalls, fetchOrder>>
    /\ UNCHANGED fnVars

\* lines 97-102: a rejected login exits with status 1, no logout
Login ==
    /\ pc = "login"
    /\ \/ pc' = "select"
       \/ Exit1
    /\ UNCHANGED <<run, nmsgs, unseen, WEBHOOK_URL, message_nums, idx, response,
                   opened, logoutCalls, outcome, dispatchCalls, optionsSent,
                   postSent, got200, storeIssued, sentTo, ticketed, prevFailed, marked, fetchCalls>>
    /\ sessionFail' = IF pc' = "exit1" THEN "login" ELSE sessionFail
    /\ UNCHANGED <<searchCalls, fetchOrder>>
    /\ UNCHANGED fnVars

\* line 104: a failing select raises here, or leaves the session unselected
\* so that the search of line 107 raises: both reach the outer handler
Select ==
    /\ pc = "select"
    /\ \/ pc' = "search"
       \/ Exit1
    /\ UNCHANGED <<run, nmsgs, unseen, WEBHOOK_URL, message_nums, idx, response,
                   opened, logoutCalls, outcome, dispatchCalls, optionsSent,
                   postSent, got200, storeIssued, sentTo, ticketed, prevFailed, marked, fetchCalls>>
    /\ sessionFail' = IF pc' = "exit1" THEN "select" ELSE sessionFail
    /\ UNCHANGED <<searchCalls, fetchOrder>>
    /\ UNCHANGED fnVars

\* search criterion ALL instead of UNSEEN
search_ALL == 1..nmsgs

\* line 107: the messages matching UNSEEN
search_UNSEEN == unseen

\* lines 107-115
Search ==
    /\ pc = "search"
    /\ \/ /\ message_nums' = SortedSeq(search_UNSEEN)
          /\ idx' = 1
          /\ pc' = IF message_nums' = <<>> THEN "logout_empty" ELSE "fetch"
       \/ Exit1 /\ UNCHANGED <<message_nums, idx>>
    /\ UNCHANGED <<run, nmsgs, unseen, WEBHOOK_URL, response,
                   opened, logoutCalls, outcome, dispatchCalls, optionsSent,
                   postSent, got200, storeIssued, sentTo, ticketed, prevFailed, marked, fetchCalls>>
    /\ searchCalls' = searchCalls + 1
    /\ sessionFail' = IF pc' = "exit1" THEN "search" ELSE sessionFail
    /\ UNCHANGED fetchOrder
    /\ UNCHANGED fnVars

\* the early return without the logout of line 111
LogoutEmptySkipped ==
    /\ pc = "logout_empty"
    /\ pc' = "returned"
    /\ UNCHANGED <<run, nmsgs, unseen, WEBHOOK_URL, message_nums, idx, response,
                   opened, logoutCalls, outcome, dispatchCalls, optionsSent,
                   postSent, got200, storeIssued, sentTo, ticketed, prevFailed, marked, fetchCalls>>
    /\ UNCHANGED <<sessionFail, searchCalls, fetchOrder>>
    /\ UNCHANGED fnVars

\* lines 110-112: no unread messages: logout and return
LogoutEmpty ==
    /\ pc = "logout_empty"
    /\ logoutCalls' = logoutCalls + 1
    /\ \/ pc' = "returned"
       \/ Exit1
    /\ UNCHANGED <<run, nmsgs, unseen, WEBHOOK_URL, message_nums, idx, response,
                   opened, outcome, dispatchCalls, optionsSent,
                   postSent, got200, storeIssued, sentTo, ticketed, prevFailed, marked, fetchCalls>>
    /\ sessionFail' = IF pc' = "exit1" THEN "logout" ELSE sessionFail
    /\ UNCHANGED <<searchCalls, fetchOrder>>
    /\ UNCHANGED fnVars

\* line 120: FETCH RFC822 is BODY[] (RFC 3501, 6.4.5): the server sets \Seen
\* implicitly, unless the flag cannot be changed for this client
fetch_RFC822 == BOOLEAN

\* lines 119-121
Fetch ==
    /\ pc = "fetch"
    /\ fetchCalls' = [fetchCalls EXCEPT ![msg_num] = @ + 1]
    /\ \/ \E implicit_seen \in fetch_RFC822 :
             /\ unseen' = IF implicit_seen THEN unseen \ {msg_num} ELSE unseen
             /\ pc' = "parse"
             /\ UNCHANGED <<idx, response, outcome>>
       \/ HandleException("fetch_err") /\ UNCHANGED unseen
    /\ UNCHANGED <<run, nmsgs, WEBHOOK_URL, message_nums,
                   opened, logoutCalls, dispatchCalls, optionsSent,
                   postSent, got200, storeIssued, sentTo, ticketed, prevFailed, marked>>
    /\ fetchOrder' = Append(fetchOrder, msg_num)
    /\ UNCHANGED <<sessionFail, searchCalls>>
    /\ UNCHANGED fnVars

\* lines 122-145: parsing, sender extraction, name split, subject and body
\* decoding either build ticket_data or raise
Parse ==
    /\ pc = "parse"
    /\ \/ pc' = "dispatch" /\ UNCHANGED <<idx, response, outcome>>
       \/ HandleException("decode_err")
    /\ UNCHANGED <<run, nmsgs, unseen, WEBHOOK_URL, message_nums,
                   opened, logoutCalls, dispatchCalls, optionsSent,
                   postSent, got200, storeIssued, sentTo, ticketed, prevFailed, marked, fetchCalls>>
    /\ UNCHANGED <<sessionFail, searchCalls, fetchOrder>>
    /\ UNCHANGED fnVars

\* success test that accepts every 2xx status
IsSuccess2xx(status) == status >= 200 /\ status < 300

\* line 150: response.status_code == 200
IsSuccess(status) == status = 200

\* send_webhook_request without the preflight of lines 63-72
PreflightOmitted ==
    /\ pc = "dispatch"
    /\ dispatchCalls' = [dispatchCalls EXCEPT ![msg_num] = @ + 1]
    /\ pc' = "post"
    /\ UNCHANGED <<idx, response, outcome, optionsSent, sentTo>>
    /\ UNCHANGED <<run, nmsgs, unseen, WEBHOOK_URL, message_nums,
                   opened, logoutCalls, postSent, got200, storeIssued,
                   ticketed, prevFailed, marked, fetchCalls>>
    /\ UNCHANGED <<sessionFail, searchCalls, fetchOrder>>
    /\ UNCHANGED fnVars

\* lines 148, 52-72 (send_webhook_request up to the preflight): the URL is
\* normalised, the OPTIONS request is sent and answered with any status, or
\* requests.options raises (no adapter, connection failure, timeout)
Preflight ==
    /\ pc = "dispatch"
    /\ dispatchCalls' = [dispatchCalls EXCEPT ![msg_num] = @ + 1]
    /\ LET url == ensure_https_url(WEBHOOK_URL)
       IN  IF requests_can_send(url)
           THEN /\ optionsSent' = [optionsSent EXCEPT ![msg_num] = @ + 1]
                /\ sentTo' = sentTo \cup {url}
                /\ \/ \E status \in Statuses :
                         /\ pc' = "post"
                         /\ UNCHANGED <<idx, response, outcome>>
                   \/ HandleException("preflight_err")
           ELSE /\ HandleException("preflight_err")
                /\ UNCHANGED <<optionsSent, sentTo>>
    /\ UNCHANGED <<run, nmsgs, unseen, WEBHOOK_URL, message_nums,
                   opened, logoutCalls, postSent, got200, storeIssued,
                   ticketed, prevFailed, marked, fetchCalls>>
    /\ UNCHANGED <<sessionFail, searchCalls, fetchOrder>>
    /\ UNCHANGED fnVars

\* lines 74-83: the POST is sent; its response is returned, or requests.post
\* raises (connection failure, timeout, certificate rejection)
Post ==
    /\ pc = "post"
    /\ postSent' = [postSent EXCEPT ![msg_num] = @ + 1]
    /\ sentTo' = sentTo \cup {ensure_https_url(WEBHOOK_URL)}
    /\ \/ \E status \in Statuses :
             /\ response' = status
             /\ pc' = "status"
             /\ got200' = IF status = 200 THEN got200 \cup {msg_num} ELSE got200
             /\ ticketed' = IF status = 200 THEN ticketed \cup {msg_num} ELSE ticketed
             /\ UNCHANGED <<idx, outcome>>
       \/ HandleException("post_err") /\ UNCHANGED <<got200, ticketed>>
    /\ UNCHANGED <<run, nmsgs, unseen, WEBHOOK_URL, message_nums,
                   opened, logoutCalls, dispatchCalls, optionsSent, storeIssued,
                   prevFailed, marked, fetchCalls>>
    /\ UNCHANGED <<sessionFail, searchCalls, fetchOrder>>
    /\ UNCHANGED fnVars

\* a status test whose failure branch ends the run with status 1
CheckStatusFatal ==
    /\ pc = "status"
    /\ IF IsSuccess(response)
       THEN pc' = "store" /\ UNCHANGED <<idx, response, outcome>>
       ELSE /\ outcome' = [outcome EXCEPT ![msg_num] = "non200"]
            /\ Exit1
            /\ UNCHANGED <<idx, response>>
    /\ UNCHANGED <<run, nmsgs, unseen, WEBHOOK_URL, message_nums,
                   opened, logoutCalls, dispatchCalls, optionsSent,
                   postSent, got200, storeIssued, sentTo, ticketed, prevFailed, marked, fetchCalls>>
    /\ UNCHANGED <<sessionFail, searchCalls, fetchOrder>>
    /\ UNCHANGED fnVars

\* lines 150, 154-156: the status decides between the store and the report
CheckStatus ==
    /\ pc = "status"
    /\ IF IsSuccess(response)
       THEN pc' = "store" /\ UNCHANGED <<idx, response, outcome>>
       ELSE NextMessage("non200")
    /\ UNCHANGED <<run, nmsgs, unseen, WEBHOOK_URL, message_nums,
                   opened, logoutCalls, dispatchCalls, optionsSent,
                   postSent, got200, storeIssued, sentTo, ticketed, prevFailed, marked, fetchCalls>>
    /\ UNCHANGED <<sessionFail, searchCalls, fetchOrder>>
    /\ UNCHANGED fnVars

\* lines 152-153: STORE +FLAGS \Seen sets the flag, is answered NO (imaplib
\* returns the NO, the result is not looked at), or raises
Store ==
    /\ pc = "store"
    /\ storeIssued' = storeIssued \cup {msg_num}
    /\ \/ /\ unseen' = unseen \ {msg_num}
          /\ marked' = marked \cup {msg_num}
          /\ NextMessage("acked")
       \/ UNCHANGED <<unseen, marked>> /\ NextMessage("store_no")
       \/ UNCHANGED <<unseen, marked>> /\ HandleException("store_err")
    /\ UNCHANGED <<run, nmsgs, WEBHOOK_URL, message_nums,
                   opened, logoutCalls, dispatchCalls, optionsSent,
                   postSent, got200, sentTo, ticketed, prevFailed, fetchCalls>>
    /\ UNCHANGED <<sessionFail, searchCalls, fetchOrder>>
    /\ UNCHANGED fnVars

\* lines 162-163: logout after the loop; a raise reaches the outer handler
Logout ==
    /\ pc = "logout"
    /\ logoutCalls' = logoutCalls + 1
    /\ \/ pc' = "returned"
       \/ Exit1
    /\ UNCHANGED <<run, nmsgs, unseen, WEBHOOK_URL, message_nums, idx, response,
                   opened, outcome, dispatchCalls, optionsSent,
                   postSent, got200, storeIssued, sentTo, ticketed, prevFailed, marked, fetchCalls>>
    /\ sessionFail' = IF pc' = "exit1" THEN "logout" ELSE sessionFail
    /\ UNCHANGED <<searchCalls, fetchOrder>>
    /\ UNCHANGED fnVars

\* lines 169-170: the script is started again over the same mailbox
Restart ==
    /\ Terminated
    /\ run < MaxRuns
    /\ run' = run + 1
    /\ pc' = "check_environment"
    /\ message_nums' = <<>>
    /\ idx' = 1
    /\ response' = 0
    /\ opened' = FALSE
    /\ logoutCalls' = 0
    /\ outcome' = [m \in Msgs |-> "none"]
    /\ dispatchCalls' = Zero
    /\ optionsSent' = Zero
    /\ postSent' = Zero
    /\ got200' = {}
    /\ storeIssued' = {}
    /\ prevFailed' = {m \in Msgs : dispatchCalls[m] > 0 /\ m \notin got200}
    /\ fetchCalls' = Zero
    /\ UNCHANGED <<nmsgs, unseen, WEBHOOK_URL, sentTo, ticketed, marked>>
    /\ sessionFail' = "none"
    /\ searchCalls' = 0
    /\ fetchOrder' = <<>>
    /\ UNCHANGED fnVars

\* the mailbox server: a new message is delivered to the inbox, unseen
Arrive ==
    /\ nmsgs < MaxMsgs
    /\ nmsgs' = nmsgs + 1
    /\ unseen' = unseen \cup {nmsgs + 1}
    /\ UNCHANGED <<pc, run, WEBHOOK_URL, message_nums, idx, response,
                   opened, logoutCalls, outcome, dispatchCalls, optionsSent,
                   postSent, got200, storeIssued, sentTo, ticketed, prevFailed, marked, fetchCalls>>
    /\ UNCHANGED <<sessionFail, searchCalls, fetchOrder>>
    /\ UNCHANGED fnVars

Next ==
    \/ check_environment
    \/ Connect
    \/ Login
    \/ Select
    \/ Search
    \/ LogoutEmpty
    \/ Fetch
    \/ Parse
    \/ Preflight
    \/ Post
    \/ CheckStatus
    \/ Store
    \/ Logout
    \/ Restart
    \/ Arrive

Spec == Init /\ [][Next]_vars

TypeOK ==
    /\ pc \in PcValues
    /\ run \in 1..MaxRuns
    /\ nmsgs \in 0..MaxMsgs
    /\ unseen \subseteq 1..nmsgs
    /\ idx \in 1..(Len(message_nums) + 1)
    /\ response \in Statuses \cup {0}
    /\ outcome \in [Msgs -> Outcomes]
    /\ sessionFail \in SessionSteps \cup {"none"}
    /\ searchCalls \in 0..1
    /\ Len(fetchOrder) <= Len(message_nums)

(***************************************************************************)
(* Claims about the run                                                    *)
(***************************************************************************)
DispatchFailed(m) == dispatchCalls[m] > 0 /\ m \notin got200

AfterSearch == {"logout_empty", "fetch", "parse", "dispatch", "post", "status",
                "store", "logout", "returned"}

\* C1: the program issues STORE +FLAGS \Seen for a message only after the POST
\* for that message returned status 200 in the same run; a message whose POST
\* returned another status, or whose requests raised, is never stored.
C1_StoreOnlyAfter200 ==
    /\ storeIssued \subseteq got200
    /\ pc = "store" => response = 200 /\ msg_num \in got200
    /\ \A m \in Msgs :
          outcome[m] \in {"preflight_err", "post_err", "non200"} => m \notin storeIssued

C1_Witness ==
    \E m \in Msgs : m \in storeIssued /\ m \in marked /\ outcome[m] = "acked"

\* C2: a message whose dispatch got a non-200 answer or failed at transport
\* level was dispatched exactly once, is still unseen when the run ends, the
\* messages after it were taken through the loop, and the run exits with
\* status 1 only when the logout itself failed.
C2_FailedDispatchLeftUnread ==
    Terminated =>
        \A i \in 1..Len(message_nums) :
            DispatchFailed(message_nums[i]) =>
                /\ dispatchCalls[message_nums[i]] = 1
                /\ message_nums[i] \in unseen
                /\ \A j \in (i + 1)..Len(message_nums) : fetchCalls[message_nums[j]] = 1
                /\ pc = "exit1" => logoutCalls = 1

\* C3 as stated: once the webhook returned 200 for a message, no run
\* dispatches that message again.
C3_NeverDispatchedAgain ==
    [][\A m \in ticketed : dispatchCalls'[m] <= dispatchCalls[m]]_vars

\* C3 as amended: a message whose POST returned 200 in this run is not
\* dispatched again in this run, and a message whose store succeeded is not
\* dispatched again in any run.
C3_NoRedispatchOnceMarked ==
    [][\A m \in got200 \cup marked : dispatchCalls'[m] <= dispatchCalls[m]]_vars

C3_Witness ==
    /\ run > 1
    /\ pc = "logout"
    /\ \E m \in marked : m \in ticketed /\ m \notin got200 /\ dispatchCalls[m] = 0
    /\ \E m \in Msgs : dispatchCalls[m] = 1

\* C4: a message whose dispatch failed in a run is returned by the search of
\* the next run.
C4_FailedRelisted ==
    (run > 1 /\ pc \in AfterSearch) => prevFailed \subseteq Range(message_nums)

\* C5: a run that opened the mailbox connection has called logout exactly once
\* when it ends.
C5_LogoutOnce ==
    (Terminated /\ opened) => logoutCalls = 1

\* C6: a failure at a per-message stage is caught and the loop goes on: when a
\* run that found unread messages ends, every message of the snapshot was
\* fetched once and has an outcome, and the run ends with status 1 only when
\* the final logout failed.
C6_FailuresDoNotAbort ==
    (Terminated /\ message_nums # <<>>) =>
        /\ idx = Len(message_nums) + 1
        /\ \A m \in Range(message_nums) : fetchCalls[m] = 1 /\ outcome[m] # "none"
        /\ pc = "exit1" => logoutCalls = 1

C6_Witness ==
    /\ pc = "returned"
    /\ Len(message_nums) = 2
    /\ outcome[message_nums[1]] = "store_err"
    /\ outcome[message_nums[2]] = "acked"

\* C7: every preflight OPTIONS request that was sent is followed by the POST,
\* whatever became of the preflight.
C7_PostFollowsPreflight ==
    \A m \in Msgs :
        optionsSent[m] > postSent[m] => (pc = "post" /\ msg_num = m)

\* C8: every request is sent to a URL whose scheme is https.
C8_RequestsUseHttps ==
    \A u \in sentTo : urlparse_scheme(u) = HTTPS

NoMessageWork(m) ==
    /\ fetchCalls[m] = 0
    /\ dispatchCalls[m] = 0
    /\ optionsSent[m] = 0
    /\ postSent[m] = 0
    /\ m \notin storeIssued
    /\ outcome[m] = "none"

\* C13: when the search returns no identifiers the run fetches nothing, sends
\* no OPTIONS and no POST and stores no flag, it goes to the logout, and it
\* returns normally only after logout was called.
C13_NoUnreadNoWork ==
    (searchCalls = 1 /\ sessionFail # "search" /\ message_nums = <<>>) =>
        /\ \A m \in Msgs : NoMessageWork(m)
        /\ fetchOrder = <<>>
        /\ pc \in {"logout_empty", "returned", "exit1"}
        /\ pc = "returned" => logoutCalls = 1
        /\ pc = "exit1" => (sessionFail = "logout" /\ logoutCalls = 1)

C13_Witness ==
    /\ pc = "returned"
    /\ searchCalls = 1
    /\ message_nums = <<>>
    /\ logoutCalls = 1
    /\ opened

\* C14: when the connection or the login fails the run ends with exit status
\* 1 and has searched nothing, fetched nothing, sent no webhook request and
\* stored no flag.
C14_OpenFailureIsFatal ==
    sessionFail \in {"connect", "login"} =>
        /\ pc = "exit1"
        /\ searchCalls = 0
        /\ message_nums = <<>>
        /\ \A m \in Msgs : NoMessageWork(m)

C14_Witness ==
    /\ sessionFail = "login"
    /\ pc = "exit1"
    /\ opened
    /\ unseen # {}

InLoop == pc \in {"fetch", "parse", "dispatch", "post", "status", "store"}

\* C15: the messages are fetched in the order of the snapshot of the single
\* search; the messages before the current one are finished, the messages
\* after it and the messages outside the snapshot (delivered after the
\* search) are untouched.
C15_OneAtATimeInOrder ==
    /\ searchCalls <= 1
    /\ \A i \in 1..(Len(message_nums) - 1) : message_nums[i] < message_nums[i + 1]
    /\ Len(fetchOrder) <= Len(message_nums)
    /\ fetchOrder = SubSeq(message_nums, 1, Len(fetchOrder))
    /\ Len(fetchOrder) = IF pc \in {"parse", "dispatch", "post", "status", "store"}
                         THEN idx ELSE idx - 1
    /\ \A i \in 1..Len(message_nums) :
          /\ i < idx => outcome[message_nums[i]] # "none"
          /\ (i > idx \/ (i = idx /\ pc = "fetch")) => NoMessageWork(message_nums[i])
          /\ (i = idx /\ InLoop) => outcome[message_nums[i]] = "none"
    /\ \A m \in Msgs \ Range(message_nums) : NoMessageWork(m)

C15_Witness ==
    /\ run = 1
    /\ pc = "logout"
    /\ message_nums = <<1>>
    /\ fetchOrder = <<1>>
    /\ 2 \in unseen
    /\ NoMessageWork(2)

PcRank ==
    [p \in PcValues |->
        CASE p = "check_environment" -> 0 [] p = "connect" -> 1 [] p = "login" -> 2
          [] p = "select" -> 3 [] p = "search" -> 4 [] p = "logout_empty" -> 5
          [] p = "fetch" -> 5 [] p = "parse" -> 6 [] p = "dispatch" -> 7
          [] p = "post" -> 8 [] p = "status" -> 9 [] p = "store" -> 10
          [] p = "logout" -> 5 [] p = "returned" -> 11 [] p = "exit1" -> 11]

\* progress of a run: the loop index first, the position in the body second
Rank == IF Terminated THEN 12 * (MaxMsgs + 2) ELSE 12 * idx + PcRank[pc]

ProgramNext ==
    \/ check_environment \/ Connect \/ Login \/ Select \/ Search \/ LogoutEmpty
    \/ Fetch \/ Parse \/ Preflight \/ Post \/ CheckStatus \/ Store \/ Logout

Acknowledged(m) ==
    /\ outcome[m] = "acked"
    /\ m \in got200
    /\ m \in storeIssued
    /\ m \in marked
    /\ m \notin unseen

LeftUnread(m) ==
    /\ outcome[m] \in {"fetch_err", "decode_err", "preflight_err", "post_err",
                       "non200", "store_err", "store_no"}
    /\ outcome[m] \in {"fetch_err", "decode_err"} => dispatchCalls[m] = 0
    /\ outcome[m] \in {"preflight_err", "post_err", "non200"} =>
          (dispatchCalls[m] = 1 /\ m \notin got200 /\ m \notin storeIssued)
    /\ outcome[m] \in {"store_err", "store_no"} => (m \in got200 /\ m \in storeIssued)

\* C16: a run that is not over can take a step, every step of a run moves it
\* up a bounded rank, and when a run that searched is over every message of
\* the snapshot was fetched exactly once and is either Acknowledged (200 and
\* the store set the flag) or LeftUnread (a stage failed), never both.
C16_RunsEndInTerminalStates ==
    /\ [](~Terminated => ENABLED ProgramNext)
    /\ [][(run' = run /\ <<pc, idx>>' # <<pc, idx>>) =>
            (Rank' > Rank /\ Rank' <= 12 * (MaxMsgs + 2))]_vars
    /\ [](Terminated =>
            /\ message_nums # <<>> => idx = Len(message_nums) + 1
            /\ \A m \in Range(message_nums) :
                  /\ fetchCalls[m] = 1
                  /\ Acknowledged(m) \/ LeftUnread(m)
                  /\ ~(Acknowledged(m) /\ LeftUnread(m)))

C16_Witness ==
    /\ pc = "returned"
    /\ Len(message_nums) = 2
    /\ Acknowledged(message_nums[1])
    /\ LeftUnread(message_nums[2])
    /\ outcome[message_nums[2]] = "store_no"

\* C17: no POST is sent for a message before an OPTIONS request was sent for
\* it, one of each at most, and both go to the one normalised URL.
C17_PreflightBeforePost ==
    /\ \A m \in Msgs : postSent[m] <= optionsSent[m] /\ optionsSent[m] <= 1
    /\ pc = "post" => optionsSent[msg_num] = 1
    /\ sentTo \subseteq {ensure_https_url(WEBHOOK_URL)}

C17_Witness ==
    /\ \E m \in Msgs : postSent[m] = 1 /\ optionsSent[m] = 1
    /\ sentTo = {HTTPS_PREFIX \o HOST}
    /\ WEBHOOK_URL = HTTP_PREFIX \o HOST

\* C19: a message loses its unseen state only in the step that stores the
\* flag after a 200 response; a fetch leaves it unseen.
C19_OnlyStoreSetsSeen ==
    [][\A m \in unseen :
          m \notin unseen' => (pc = "store" /\ msg_num = m /\ response = 200)]_vars

\* C20: a run ends with exit status 1 exactly when a session-level step
\* (configuration check, connect, login, select, search, logout) failed,
\* whatever the outcomes of its messages; a failing final logout leaves the
\* flags stored in the run as they are.
C20_ExitDependsOnSessionOnly ==
    /\ pc = "exit1" <=> sessionFail # "none"
    /\ sessionFail \in SessionSteps \cup {"none"}
    /\ pc = "returned" => (logoutCalls = 1 /\ searchCalls = 1)
    /\ \A m \in Msgs : outcome[m] = "acked" => m \notin unseen

C20_Witness ==
    /\ pc = "exit1"
    /\ sessionFail = "logout"
    /\ message_nums # <<>>
    /\ \A m \in Range(message_nums) : outcome[m] = "acked" /\ m \in marked /\ m \notin unseen

(***************************************************************************)
(* Pure functions, applied to bounded inputs                               *)
(***************************************************************************)
\* the run of main() is not started
Idle ==
    /\ pc = "idle"
    /\ run = 1
    /\ nmsgs = 0
    /\ unseen = {}
    /\ WEBHOOK_URL = <<>>
    /\ message_nums = <<>>
    /\ idx = 1
    /\ response = 0
    /\ opened = FALSE
    /\ logoutCalls = 0
    /\ outcome = [m \in Msgs |-> "none"]
    /\ dispatchCalls = Zero
    /\ optionsSent = Zero
    /\ postSent = Zero
    /\ got200 = {}
    /\ storeIssued = {}
    /\ sentTo = {}
    /\ ticketed = {}
    /\ prevFailed = {}
    /\ marked = {}
    /\ fetchCalls = Zero
    /\ sessionFail = "none"
    /\ searchCalls = 0
    /\ fetchOrder = <<>>

RECURSIVE Concats(_, _)
\* the concatenations of at most n elements of P
Concats(P, n) ==
    IF n = 0 THEN {<<>>}
    ELSE LET shorter == Concats(P, n - 1)
         IN  shorter \cup {s \o q : s \in shorter, q \in P}

UrlPieces ==
    { HTTP_PREFIX,
      HTTPS_PREFIX,
      <<"H", "T", "T", "P", ":", "/", "/">>,
      <<"H", "T", "T", "P", "S", ":", "/", "/">>,
      <<"f", "t", "p", ":", "/", "/">>,
      HOST,
      <<"/">> }

URLs == Concats(UrlPieces, MaxPieces)

InitUrl ==
    /\ Idle
    /\ arg \in URLs
    /\ ret = <<>>
    /\ call = "ensure_https_url"

\* ensure_https_url applied to the URL, then to its own result
ApplyEnsure ==
    /\ call = "ensure_https_url"
    /\ Len(ret) < 2
    /\ ret' = Append(ret, ensure_https_url(IF ret = <<>> THEN arg ELSE ret[Len(ret)]))
    /\ UNCHANGED <<arg, call>>
    /\ UNCHANGED runVars

NextUrl == ApplyEnsure

SpecUrl == InitUrl /\ [][NextUrl]_vars

StartsHttp(u) == MatchAt(u, HTTP_PREFIX, 1)
StartsHttps(u) == MatchAt(u, HTTPS_PREFIX, 1)

HTML_BYTES == <<60, 112, 62, 104, 105, 60, 47, 112, 62>>   \* <p>hi</p>
HTML2_BYTES == <<60, 112, 62>>                             \* <p>
TEXT_BYTES == <<104, 105>>                                 \* hi
BAD_BYTES == <<255>>                                       \* not UTF-8

Chr == [b \in {47, 60, 62, 104, 105, 112} |->
          CASE b = 47 -> "/" [] b = 60 -> "<" [] b = 62 -> ">"
            [] b = 104 -> "h" [] b = 105 -> "i" [] b = 112 -> "p"]

Raised == [ok |-> FALSE, text |-> <<>>]
Returned(t) == [ok |-> TRUE, text |-> t]

\* bytes.decode(): UTF-8, strict; None.decode() raises AttributeError
bytes_decode(payload) ==
    IF payload.none THEN Raised
    ELSE IF \A i \in 1..Len(payload.bytes) : payload.bytes[i] \in DOMAIN Chr
         THEN Returned([i \in 1..Len(payload.bytes) |-> Chr[payload.bytes[i]]])
         ELSE Raised

is_multipart(part) == part.ctype = "multipart/alternative"

\* part.get_payload(decode=True): None for a multipart container
get_payload_decode(part) ==
    IF is_multipart(part)
    THEN [none |-> TRUE, bytes |-> <<>>]
    ELSE [none |-> FALSE, bytes |-> part.payload]

Part(c, b) == [ctype |-> c, payload |-> b]

SubParts ==
    { Part("text/html", HTML_BYTES),
      Part("text/html", HTML2_BYTES),
      Part("text/plain", TEXT_BYTES),
      Part("text/plain", BAD_BYTES),
      Part("image/png", BAD_BYTES),
      Part("multipart/alternative", <<>>) }

\* sequences of at most n sub-parts
PartSeqs(n) == UNION {[1..k -> SubParts] : k \in 0..n}

\* a message: its own content type and payload, and for a multipart message
\* the sub-parts in the order msg.walk() visits them after the message itself
Messages ==
    {[ctype |-> "multipart/alternative", payload |-> <<>>, parts |-> ps] :
        ps \in PartSeqs(MaxParts)}
    \cup
    {[ctype |-> p.ctype, payload |-> p.payload, parts |-> <<>>] :
        p \in {q \in SubParts : ~is_multipart(q)}}

\* msg.walk(): the message itself, then its sub-parts
walk(msg) == <<Part(msg.ctype, msg.payload)>> \o msg.parts

FirstIndex(w, types) ==
    IF \E i \in 1..Len(w) : w[i].ctype \in types
    THEN CHOOSE i \in 1..Len(w) :
            w[i].ctype \in types /\ \A j \in 1..(i - 1) : w[j].ctype \notin types
    ELSE 0

\* lines 26-34: the first part of the walk that is text/html or text/plain is
\* returned; without one, and for a message that is not multipart, the
\* payload of the message itself
get_email_body(msg) ==
    LET w == walk(msg)
        i == FirstIndex(w, {"text/html", "text/plain"})
    IN  IF is_multipart(msg) /\ i > 0
        THEN bytes_decode(get_payload_decode(w[i]))
        ELSE bytes_decode(get_payload_decode(msg))

InitBody ==
    /\ Idle
    /\ arg \in Messages
    /\ ret = <<>>
    /\ call = "get_email_body"

ApplyBody ==
    /\ call = "get_email_body"
    /\ ret = <<>>
    /\ ret' = <<get_email_body(arg)>>
    /\ UNCHANGED <<arg, call>>
    /\ UNCHANGED runVars

NextBody == ApplyBody

SpecBody == InitBody /\ [][NextBody]_vars

HasPart(msg, type) == \E i \in 1..Len(msg.parts) : msg.parts[i].ctype = type

\* C10: for a multipart message with an HTML part and a plain-text part, in
\* either order, the result is the decoded payload of the first HTML part.
C10_HtmlPreferred ==
    ( /\ call = "get_email_body"
      /\ Len(ret) = 1
      /\ is_multipart(arg)
      /\ HasPart(arg, "text/html")
      /\ HasPart(arg, "text/plain") ) =>
        ret[1] = bytes_decode(get_payload_decode(
                    arg.parts[FirstIndex(arg.parts, {"text/html"})]))

(***************************************************************************)
(* Sender extraction, lines 124-131 of main()                              *)
(***************************************************************************)
SP == " "
TAB == "\t"
QUOTE == "\""
LT == "<"
GT == ">"
Whitespace == {SP, TAB}

RECURSIVE lstrip(_, _)
lstrip(s, chars) ==
    IF s # <<>> /\ Head(s) \in chars THEN lstrip(Tail(s), chars) ELSE s

RECURSIVE rstrip(_, _)
rstrip(s, chars) ==
    IF s # <<>> /\ s[Len(s)] \in chars
    THEN rstrip(SubSeq(s, 1, Len(s) - 1), chars)
    ELSE s

\* str.strip(chars); str.strip() is strip(s, Whitespace)
strip(s, chars) == rstrip(lstrip(s, chars), chars)

\* s.split(sep)[0] and s.split(sep)[1] for a one-character separator in s
split_0(s, sep) == SubSeq(s, 1, Find(s, <<sep>>) - 1)
split_1(s, sep) ==
    LET rest == SubSeq(s, Find(s, <<sep>>) + 1, Len(s))
        j == Find(rest, <<sep>>)
    IN  IF j = 0 THEN rest ELSE SubSeq(rest, 1, j - 1)

\* lines 126-131
extract_sender(from_header) ==
    IF Find(from_header, <<LT>>) > 0
    THEN [sender_name |-> strip(strip(split_0(from_header, LT), Whitespace), {QUOTE}),
          sender_email |-> strip(split_1(from_header, LT), {GT})]
    ELSE [sender_name |-> <<>>,
          sender_email |-> strip(from_header, Whitespace)]

HeaderChars == {"J", "j", SP, QUOTE, LT, GT}

\* the strings over C of length at most n
Strings(C, n) == UNION {[1..k -> C] : k \in 0..n}

InitSender ==
    /\ Idle
    /\ arg \in Strings(HeaderChars, MaxHeader)
    /\ ret = <<>>
    /\ call = "extract_sender"

ApplySender ==
    /\ call = "extract_sender"
    /\ ret = <<>>
    /\ ret' = <<extract_sender(arg)>>
    /\ UNCHANGED <<arg, call>>
    /\ UNCHANGED runVars

NextSender == ApplySender

SpecSender == InitSender /\ [][NextSender]_vars

\* the header holds one '<' and one '>', the '>' after the '<'
HasBracketedAddress(h) ==
    /\ Count(h, <<LT>>) = 1
    /\ Count(h, <<GT>>) = 1
    /\ Find(h, <<LT>>) < Find(h, <<GT>>)

\* the text between the first '<' and the first '>' after it
Bracketed(h) ==
    LET i == Find(h, <<LT>>)
        rest == SubSeq(h, i + 1, Len(h))
    IN  SubSeq(rest, 1, Find(rest, <<GT>>) - 1)

\* C11: for a header with one bracketed address the display name is the text
\* before the bracket with surrounding whitespace, then quotes, removed, and
\* the address is exactly the bracketed text, without bracket characters;
\* for a header without brackets the name is empty and the address is the
\* trimmed header.
C11_SenderExtraction ==
    (call = "extract_sender" /\ Len(ret) = 1) =>
        /\ HasBracketedAddress(arg) =>
              /\ ret[1].sender_name =
                    strip(strip(split_0(arg, LT), Whitespace), {QUOTE})
              /\ ret[1].sender_email = Bracketed(arg)
              /\ LT \notin Range(ret[1].sender_email)
              /\ GT \notin Range(ret[1].sender_email)
        /\ (LT \notin Range(arg) /\ GT \notin Range(arg)) =>
              /\ ret[1].sender_name = <<>>
              /\ ret[1].sender_email = strip(arg, Whitespace)

(***************************************************************************)
(* process_name                                                            *)
(***************************************************************************)
RECURSIVE split(_)
\* str.split(): the maximal runs of non-whitespace characters
split(s) ==
    LET t == lstrip(s, Whitespace)
    IN  IF t = <<>> THEN <<>>
        ELSE LET n == IF \E i \in 1..Len(t) : t[i] \in Whitespace
                      THEN (CHOOSE i \in 1..Len(t) :
                               t[i] \in Whitespace
                               /\ \A j \in 1..(i - 1) : t[j] \notin Whitespace) - 1
                      ELSE Len(t)
             IN  <<SubSeq(t, 1, n)>> \o split(SubSeq(t, n + 1, Len(t)))

RECURSIVE join(_, _)
\* sep.join(parts)
join(sep, parts) ==
    IF parts = <<>> THEN <<>>
    ELSE IF Len(parts) = 1 THEN parts[1]
    ELSE parts[1] \o sep \o join(sep, Tail(parts))

\* a split that keeps the last token only as the last name
process_name_last_token(full_name) ==
    LET parts == split(full_name)
    IN  [first_name |-> IF parts # <<>> THEN parts[1] ELSE <<>>,
         last_name |-> IF Len(parts) > 1 THEN parts[Len(parts)] ELSE <<>>]

\* lines 36-41
process_name(full_name) ==
    LET parts == split(full_name)
    IN  [first_name |-> IF parts # <<>> THEN parts[1] ELSE <<>>,
         last_name |-> IF Len(parts) > 1 THEN join(<<SP>>, Tail(parts)) ELSE <<>>]

NameChars == {"A", "B", SP, TAB}

InitName ==
    /\ Idle
    /\ arg \in Strings(NameChars, MaxName)
    /\ ret = <<>>
    /\ call = "process_name"

ApplyName ==
    /\ call = "process_name"
    /\ ret = <<>>
    /\ ret' = <<process_name(arg)>>
    /\ UNCHANGED <<arg, call>>
    /\ UNCHANGED runVars

NextName == ApplyName

SpecName == InitName /\ [][NextName]_vars

\* the positions where a token of s starts, and where one ends
TokenStarts(s) ==
    {i \in 1..Len(s) : s[i] \notin Whitespace /\ (i = 1 \/ s[i - 1] \in Whitespace)}
TokenEnds(s) ==
    {i \in 1..Len(s) : s[i] \notin Whitespace /\ (i = Len(s) \/ s[i + 1] \in Whitespace)}

\* the k-th whitespace-separated token of s, by position
Token(s, k) ==
    SubSeq(s, SortedSeq(TokenStarts(s))[k], SortedSeq(TokenEnds(s))[k])

\* C12: first_name is the first whitespace-separated token and last_name is
\* the tokens 2..N joined by single spaces (empty when N = 1); a name that is
\* empty or whitespace only gives two empty fields.
C12_SplitName ==
    (call = "process_name" /\ Len(ret) = 1) =>
        LET N == Cardinality(TokenStarts(arg))
        IN  /\ N = 0 => (ret[1].first_name = <<>> /\ ret[1].last_name = <<>>)
            /\ N >= 1 => ret[1].first_name = Token(arg, 1)
            /\ N = 1 => ret[1].last_name = <<>>
            /\ N >= 2 =>
                  ret[1].last_name = join(<<SP>>, [k \in 1..(N - 1) |-> Token(arg, k + 1)])

C12_Witness ==
    /\ call = "process_name"
    /\ Len(ret) = 1
    /\ Cardinality(TokenStarts(arg)) = 3
    /\ arg[2] = TAB
    /\ ret[1].last_name = <<"B", SP, "A">>

(***************************************************************************)
(* decode_str                                                              *)
(***************************************************************************)
\* a header is a sequence of words: unencoded ASCII text (charset "none") or
\* an RFC 2047 encoded word with its charset and its bytes
A_BYTES == <<97>>              \* a
E_UTF8 == <<195, 169>>         \* e acute in UTF-8
E_LATIN1 == <<233>>            \* e acute in ISO-8859-1

Word(c, b) == [charset |-> c, bytes |-> b]

HeaderWords ==
    {Word("none", A_BYTES)}
    \cup {Word(c, b) : c \in {"utf-8", "iso-8859-1"},
                       b \in {A_BYTES, E_UTF8, E_LATIN1}}

Headers == UNION {[1..k -> HeaderWords] : k \in 1..MaxWords}

RECURSIVE decode_header(_)
\* email.header.decode_header: one (bytes, charset) pair per run of words of
\* the same charset; a header without encoded words comes back as one str
decode_header(h) ==
    IF Len(h) <= 1 THEN h
    ELSE LET rest == decode_header(Tail(h))
         IN  IF h[1].charset = rest[1].charset
             THEN <<Word(h[1].charset, h[1].bytes \o rest[1].bytes)>> \o Tail(rest)
             ELSE <<h[1]>> \o rest

RECURSIVE utf8_decode(_)
\* bytes.decode('utf-8') over the bytes in use; Raised is UnicodeDecodeError
utf8_decode(b) ==
    IF b = <<>> THEN Returned(<<>>)
    ELSE LET one == b[1] < 128
             two == Len(b) >= 2 /\ b[1] = 195 /\ b[2] = 169
             rest == utf8_decode(IF two THEN SubSeq(b, 3, Len(b)) ELSE Tail(b))
         IN  IF (one \/ two) /\ rest.ok
             THEN Returned(<<IF two THEN "e'" ELSE "a">> \o rest.text)
             ELSE Raised

\* bytes.decode('iso-8859-1'): one character per byte
latin1_decode(b) ==
    Returned([i \in 1..Len(b) |->
                CASE b[i] = 97 -> "a" [] b[i] = 233 -> "e'"
                  [] b[i] = 195 -> "A~" [] b[i] = 169 -> "(c)"])

\* decoded_string.decode(charset or 'utf-8'); a str is returned as it is
decode_fragment(f) ==
    IF f.charset = "iso-8859-1" THEN latin1_decode(f.bytes) ELSE utf8_decode(f.bytes)

\* lines 19-24: the first pair of decode_header is decoded and returned
decode_str(string) == decode_fragment(decode_header(string)[1])

InitHeader ==
    /\ Idle
    /\ arg \in Headers
    /\ ret = <<>>
    /\ call = "decode_str"

ApplyHeader ==
    /\ call = "decode_str"
    /\ ret = <<>>
    /\ ret' = <<decode_str(arg)>>
    /\ UNCHANGED <<arg, call>>
    /\ UNCHANGED runVars

NextHeader == ApplyHeader

SpecHeader == InitHeader /\ [][NextHeader]_vars

RECURSIVE AllDecoded(_)
\* every fragment decoded with its charset, in order, as one text
AllDecoded(fs) ==
    IF fs = <<>> THEN Returned(<<>>)
    ELSE LET first == decode_fragment(fs[1])
             rest == AllDecoded(Tail(fs))
         IN  IF first.ok /\ rest.ok THEN Returned(first.text \o rest.text) ELSE Raised

\* C18: for a header whose fragments all decode, the result is the text of
\* all fragments, each decoded with its charset, in order.
C18_WholeHeaderDecoded ==
    ( /\ call = "decode_str"
      /\ Len(ret) = 1
      /\ AllDecoded(decode_header(arg)).ok ) =>
        ret[1] = AllDecoded(decode_header(arg))

====
